---- MODULE Spec2Model ----
(***************************************************************************)
(* Model of the LLDB ABI plugin for MOS 6502 targets (ABISysV_mos).        *)
(* The plugin is a set of queries over a static register table; the state  *)
(* below is what those queries can observe or touch: the static table, the *)
(* debugged process, the caller's value list, the heap of unwind plans     *)
(* handed out, and the last call with its inputs and result.               *)
(***************************************************************************)
EXTENDS Integers, Sequences, FiniteSets, TLC

VARIABLES register_infos, process, values, heap, returned, last

vars == <<register_infos, process, values, heap, returned, last>>

(* ------------------------------ bounds --------------------------------- *)

\* number of unwind plans the host keeps alive at once
MaxPlans == 2
\* longest argument list handed to PrepareTrivialCall
MaxArgs == 1
\* longest value list handed to GetArgumentValues
MaxValues == 1
\* half-width of the window of addresses sampled around each boundary
AddrSpan == 1

(* --------------------------- register numbers -------------------------- *)

NULL == "nullptr"

dwarf_a == 0
dwarf_x == 1
dwarf_y == 2
dwarf_p == 3
dwarf_sp == 4
dwarf_pc == 5

\* positions of the numbering schemes inside RegisterInfo::kinds
eRegisterKindEHFrame == 0
eRegisterKindDWARF == 1
eRegisterKindGeneric == 2
eRegisterKindProcessPlugin == 3
eRegisterKindLLDB == 4

LLDB_INVALID_REGNUM == "LLDB_INVALID_REGNUM"
LLDB_REGNUM_GENERIC_PC == "LLDB_REGNUM_GENERIC_PC"
LLDB_REGNUM_GENERIC_SP == "LLDB_REGNUM_GENERIC_SP"
LLDB_REGNUM_GENERIC_FLAGS == "LLDB_REGNUM_GENERIC_FLAGS"

\* one RegisterInfo initializer: name, alt_name, byte_size, byte_offset,
\* encoding, format, kinds[5]; the three trailing pointers are null
RegisterInfo(name, alt_name, byte_size, byte_offset, k0, k1, k2, k3, k4) ==
  [name |-> name, alt_name |-> alt_name, byte_size |-> byte_size,
   byte_offset |-> byte_offset, encoding |-> "eEncodingUint",
   format |-> "eFormatHex",
   kinds |-> [k \in 0..4 |-> <<k0, k1, k2, k3, k4>>[k + 1]],
   value_regs |-> NULL, invalidate_regs |-> NULL, flags_type |-> NULL]

\* the table with the stack-pointer role put on the flags entry as well
g_register_infos_Mut ==
  << RegisterInfo("a", NULL, 1, 0, dwarf_a, dwarf_a, LLDB_INVALID_REGNUM,
                  LLDB_INVALID_REGNUM, LLDB_INVALID_REGNUM),
     RegisterInfo("x", NULL, 1, 0, dwarf_x, dwarf_x, LLDB_INVALID_REGNUM,
                  LLDB_INVALID_REGNUM, LLDB_INVALID_REGNUM),
     RegisterInfo("y", NULL, 1, 0, dwarf_y, dwarf_y, LLDB_INVALID_REGNUM,
                  LLDB_INVALID_REGNUM, LLDB_INVALID_REGNUM),
     RegisterInfo("p", "flags", 1, 0, dwarf_p, dwarf_p, LLDB_REGNUM_GENERIC_SP,
                  LLDB_INVALID_REGNUM, LLDB_INVALID_REGNUM),
     RegisterInfo("sp", NULL, 1, 0, dwarf_sp, dwarf_sp, LLDB_REGNUM_GENERIC_SP,
                  LLDB_INVALID_REGNUM, LLDB_INVALID_REGNUM),
     RegisterInfo("pc", NULL, 2, 0, dwarf_pc, dwarf_pc, LLDB_REGNUM_GENERIC_PC,
                  LLDB_INVALID_REGNUM, LLDB_INVALID_REGNUM) >>

\* Register info for MOS 6502.  Order: A, X, Y, P, SP, PC
g_register_infos ==
  << RegisterInfo("a", NULL, 1, 0, dwarf_a, dwarf_a, LLDB_INVALID_REGNUM,
                  LLDB_INVALID_REGNUM, LLDB_INVALID_REGNUM),
     RegisterInfo("x", NULL, 1, 0, dwarf_x, dwarf_x, LLDB_INVALID_REGNUM,
                  LLDB_INVALID_REGNUM, LLDB_INVALID_REGNUM),
     RegisterInfo("y", NULL, 1, 0, dwarf_y, dwarf_y, LLDB_INVALID_REGNUM,
                  LLDB_INVALID_REGNUM, LLDB_INVALID_REGNUM),
     RegisterInfo("p", "flags", 1, 0, dwarf_p, dwarf_p,
                  LLDB_REGNUM_GENERIC_FLAGS,
                  LLDB_INVALID_REGNUM, LLDB_INVALID_REGNUM),
     RegisterInfo("sp", NULL, 1, 0, dwarf_sp, dwarf_sp, LLDB_REGNUM_GENERIC_SP,
                  LLDB_INVALID_REGNUM, LLDB_INVALID_REGNUM),
     RegisterInfo("pc", NULL, 2, 0, dwarf_pc, dwarf_pc, LLDB_REGNUM_GENERIC_PC,
                  LLDB_INVALID_REGNUM, LLDB_INVALID_REGNUM) >>

k_num_register_infos == Len(g_register_infos)

\* GetRegisterInfoArray(count): count and a pointer to the static table,
\* whose current contents are infos
GetRegisterInfoArray(infos) ==
  [count |-> k_num_register_infos, infos |-> infos]

GetRedZoneSize == 0

GetStackFrameSize == 256

(* ------------------------------ inputs --------------------------------- *)

\* lldb::addr_t samples: both ends of the 16-bit address space, the stack
\* page $0100-$01FF and its neighbours, and one wide address
HighAddr == 65536 * 32767
Addrs ==
  (0..AddrSpan) \cup ((65535 - AddrSpan)..(65536 + AddrSpan))
    \cup {256, 511, 512, HighAddr}

\* stack pointers, function addresses and return addresses handed to
\* PrepareTrivialCall
StackPtrs == {0, 509}
FuncAddrs == {1536, 65536}
RetAddrs == {1539}

Tids == {1, 2}
StackAddrs == {510, 511}

RegFile(a, x, y, p, sp, pc) ==
  [a |-> a, x |-> x, y |-> y, p |-> p, sp |-> sp, pc |-> pc]

\* states of the debugged process the plugin may be asked about
Processes ==
  { [regs |-> [t \in Tids |-> RegFile(0, 0, 0, 32, 253, 1536)],
     memory |-> [m \in StackAddrs |-> 0]],
    [regs |-> [t \in Tids |-> RegFile(t, 7, 9, 33, 255 - 2 * t, 1536 + t)],
     memory |-> [m \in StackAddrs |-> m - 500]] }

SeqsUpTo(S, n) == UNION { [1..k -> S] : k \in 0..n }

ArgLists == SeqsUpTo({0, 65535}, MaxArgs)
ValueLists == SeqsUpTo({"v1", "v2"}, MaxValues)

\* llvm::Triple::ArchType values a requested ArchSpec may carry
Archs == {"UnknownArch", "avr", "mos", "x86_64"}

\* a descriptor that is not one of the six table entries
ForeignRegisterInfo ==
  RegisterInfo("r15", NULL, 8, 120, 15, 15, LLDB_INVALID_REGNUM,
               LLDB_INVALID_REGNUM, LLDB_INVALID_REGNUM)

\* a const RegisterInfo * is <<>> when null and <<r>> when it points at r
nullptr_reg_info == <<>>

\* descriptors a caller may pass as const RegisterInfo *
RegInfoPtrs ==
  { <<g_register_infos[i]>> : i \in 1..Len(g_register_infos) }
    \cup {<<ForeignRegisterInfo>>, nullptr_reg_info}

CompilerTypes == {"void", "char", "int"}
Frames == {"frame0", "frame1"}
ValueObjects == {"obj1", NULL}

(* ------------------------------ factory -------------------------------- *)

\* an ABISP owning an instance, and the empty ABISP()
ABISP(obj) == [valid |-> TRUE, get |-> obj]
ABISP_empty == [valid |-> FALSE]

\* the factory accepting the AVR tag as well
CreateInstance_Mut(process_sp, arch) ==
  IF arch \in {"mos", "avr"}
    THEN ABISP([plugin |-> "sysv-mos", process_sp |-> process_sp,
                arch |-> arch])
    ELSE ABISP_empty

CreateInstance(process_sp, arch) ==
  IF arch = "mos"
    THEN ABISP([plugin |-> "sysv-mos", process_sp |-> process_sp,
                arch |-> arch])
    ELSE ABISP_empty

(* ------------------------ calling-convention stubs --------------------- *)

\* a call set-up as other targets do it: stack pointer and program counter
\* of the thread are written, the return address is pushed
PrepareTrivialCall_Mut(proc, tid, sp, pc, ra, args) ==
  [ret |-> TRUE,
   process |-> [proc EXCEPT !.regs[tid].sp = sp % 256,
                            !.regs[tid].pc = pc % 65536,
                            !.memory[511] = ra % 256]]

\* returns false; thread (and through it the process) is not touched
PrepareTrivialCall(proc, tid, sp, pc, ra, args) ==
  [ret |-> FALSE, process |-> proc]

\* a stub that clears the caller's list before reporting failure
GetArgumentValues_Mut(proc, tid, vals) ==
  [ret |-> FALSE, values |-> <<>>]

\* returns false; the ValueList reference is not touched
GetArgumentValues(proc, tid, vals) ==
  [ret |-> FALSE, values |-> vals]

\* returns a default-constructed Status (success); nothing is written
SetReturnValueObject(frame_sp, new_value_sp) ==
  [status |-> [success |-> TRUE],
   frame_sp |-> frame_sp, new_value_sp |-> new_value_sp]

\* returns an empty ValueObjectSP
GetReturnValueObjectSimple(proc, tid, return_compiler_type) ==
  [valid |-> FALSE]

GetReturnValueObjectImpl(proc, tid, return_compiler_type) ==
  [valid |-> FALSE]

(* -------------------------- address validity --------------------------- *)

\* a check against the stack page instead of against zero
CallFrameAddressIsValid_Mut(cfa) == cfa >= 256 /\ cfa <= 511

CallFrameAddressIsValid(cfa) == cfa # 0

\* an off-by-one at the top of the address space
CodeAddressIsValid_Mut(pc) == pc < 65535

CodeAddressIsValid(pc) == pc <= 65535

(* ------------------------ register classification ---------------------- *)

\* the stack pointer treated as preserved across calls
RegisterIsCalleeSaved_Mut(reg_info) ==
  /\ reg_info # nullptr_reg_info
  /\ reg_info[1].kinds[eRegisterKindGeneric] = LLDB_REGNUM_GENERIC_SP

RegisterIsCalleeSaved(reg_info) == FALSE

RegisterIsVolatile(reg_info) == ~RegisterIsCalleeSaved(reg_info)

(* ----------------------------- unwind plans ---------------------------- *)

\* UnwindPlan::Row as default-constructed: no CFA rule, no register rules
Row == [cfa_value |-> [type |-> "unspecified"], register_locations |-> <<>>]

SetIsRegisterPlusOffset(row, reg_num, offset) ==
  [row EXCEPT !.cfa_value =
     [type |-> "isRegisterPlusOffset", reg_num |-> reg_num,
      offset |-> offset]]

\* the register's saved value is in memory at CFA + offset
SetRegisterLocationToAtCFAPlusOffset(row, reg_num, offset, can_replace) ==
  IF ~can_replace /\ reg_num \in DOMAIN row.register_locations
    THEN row
    ELSE [row EXCEPT !.register_locations =
            (reg_num :> [type |-> "atCFAPlusOffset", offset |-> offset]) @@ @]

\* the register's value is CFA + offset itself
SetRegisterLocationToIsCFAPlusOffset(row, reg_num, offset, can_replace) ==
  IF ~can_replace /\ reg_num \in DOMAIN row.register_locations
    THEN row
    ELSE [row EXCEPT !.register_locations =
            (reg_num :> [type |-> "isCFAPlusOffset", offset |-> offset]) @@ @]

\* UnwindPlan as constructed for a register kind: no rows, lazy flags unset
UnwindPlan(reg_kind) ==
  [register_kind |-> reg_kind, row_list |-> <<>>, source_name |-> "",
   sourced_from_compiler |-> "eLazyBoolCalculate",
   valid_at_all_instructions |-> "eLazyBoolCalculate"]

AppendRow(plan, row) == [plan EXCEPT !.row_list = Append(@, row)]
SetSourceName(plan, name) == [plan EXCEPT !.source_name = name]
SetSourcedFromCompiler(plan, b) == [plan EXCEPT !.sourced_from_compiler = b]
SetUnwindPlanValidAtAllInstructions(plan, b) ==
  [plan EXCEPT !.valid_at_all_instructions = b]

\* std::make_shared: a new object at an address no live object has
make_shared(h, obj) == [heap |-> Append(h, obj), plan_sp |-> Len(h) + 1]

\* an entry plan kept in one shared object: built on the first call, the
\* same pointer handed out on every later call
CreateFunctionEntryUnwindPlan_Mut(h) ==
  LET row0 == SetIsRegisterPlusOffset(Row, dwarf_sp, 2)
      row1 == SetRegisterLocationToAtCFAPlusOffset(row0, dwarf_pc, -2, TRUE)
      row2 == SetRegisterLocationToIsCFAPlusOffset(row1, dwarf_sp, 0, TRUE)
      plan == SetSourcedFromCompiler(
                SetSourceName(
                  AppendRow(UnwindPlan(eRegisterKindDWARF), row2),
                  "mos 6502 at-func-entry default"),
                "eLazyBoolNo")
      old == { a \in 1..Len(h) : h[a] = plan }
  IN IF old = {}
       THEN make_shared(h, plan)
       ELSE [heap |-> h, plan_sp |-> CHOOSE a \in old : TRUE]

\* Called when we are on the first instruction of a new function
CreateFunctionEntryUnwindPlan(h) ==
  LET sp_reg_num == dwarf_sp
      pc_reg_num == dwarf_pc
      row0 == SetIsRegisterPlusOffset(Row, sp_reg_num, 2)
      row1 == SetRegisterLocationToAtCFAPlusOffset(row0, pc_reg_num, -2, TRUE)
      row2 == SetRegisterLocationToIsCFAPlusOffset(row1, sp_reg_num, 0, TRUE)
      plan0 == UnwindPlan(eRegisterKindDWARF)
      plan1 == AppendRow(plan0, row2)
      plan2 == SetSourceName(plan1, "mos 6502 at-func-entry default")
      plan3 == SetSourcedFromCompiler(plan2, "eLazyBoolNo")
  IN make_shared(h, plan3)

\* a default plan that takes the stack pointer itself as the CFA
CreateDefaultUnwindPlan_Mut(h) ==
  LET row0 == SetIsRegisterPlusOffset(Row, dwarf_sp, 0)
      row1 == SetRegisterLocationToAtCFAPlusOffset(row0, dwarf_pc, -2, TRUE)
      row2 == SetRegisterLocationToIsCFAPlusOffset(row1, dwarf_sp, 0, TRUE)
  IN make_shared(h,
       SetUnwindPlanValidAtAllInstructions(
         SetSourcedFromCompiler(
           SetSourceName(AppendRow(UnwindPlan(eRegisterKindDWARF), row2),
                         "mos 6502 default unwind plan"),
           "eLazyBoolNo"),
         "eLazyBoolNo"))

CreateDefaultUnwindPlan(h) ==
  LET sp_reg_num == dwarf_sp
      pc_reg_num == dwarf_pc
      row0 == SetIsRegisterPlusOffset(Row, sp_reg_num, 2)
      row1 == SetRegisterLocationToAtCFAPlusOffset(row0, pc_reg_num, -2, TRUE)
      row2 == SetRegisterLocationToIsCFAPlusOffset(row1, sp_reg_num, 0, TRUE)
      plan0 == UnwindPlan(eRegisterKindDWARF)
      plan1 == AppendRow(plan0, row2)
      plan2 == SetSourceName(plan1, "mos 6502 default unwind plan")
      plan3 == SetSourcedFromCompiler(plan2, "eLazyBoolNo")
      plan4 == SetUnwindPlanValidAtAllInstructions(plan3, "eLazyBoolNo")
  IN make_shared(h, plan4)

(* ------------------------------- state --------------------------------- *)

\* the call just made: operation, inputs, result
Call(op, in, out) == [op |-> op, in |-> in, out |-> out]

Init ==
  /\ register_infos = g_register_infos
  /\ process \in Processes
  /\ values = <<>>
  /\ heap = <<>>
  /\ returned = <<>>
  /\ last = Call("none", <<>>, <<>>)

(* ------------------------------ queries -------------------------------- *)

DoGetRegisterInfoArray ==
  /\ last' = Call("GetRegisterInfoArray", <<>>,
                  GetRegisterInfoArray(register_infos))
  /\ UNCHANGED <<register_infos, process, values, heap, returned>>

DoGetRedZoneSize ==
  /\ last' = Call("GetRedZoneSize", <<>>, GetRedZoneSize)
  /\ UNCHANGED <<register_infos, process, values, heap, returned>>

DoGetStackFrameSize ==
  /\ last' = Call("GetStackFrameSize", <<>>, GetStackFrameSize)
  /\ UNCHANGED <<register_infos, process, values, heap, returned>>

DoCreateInstance ==
  \E process_sp \in {"process", NULL}, arch \in Archs :
    /\ last' = Call("CreateInstance",
                    [process_sp |-> process_sp, arch |-> arch],
                    CreateInstance(process_sp, arch))
    /\ UNCHANGED <<register_infos, process, values, heap, returned>>

DoPrepareTrivialCall ==
  \E tid \in Tids, sp \in StackPtrs, pc \in FuncAddrs, ra \in RetAddrs,
     args \in ArgLists :
    LET r == PrepareTrivialCall(process, tid, sp, pc, ra, args)
    IN /\ process' = r.process
       /\ last' = Call("PrepareTrivialCall",
                       [process |-> process, tid |-> tid, sp |-> sp,
                        pc |-> pc, ra |-> ra, args |-> args],
                       r.ret)
       /\ UNCHANGED <<register_infos, values, heap, returned>>

DoGetArgumentValues ==
  \E tid \in Tids, vals \in ValueLists :
    LET r == GetArgumentValues(process, tid, vals)
    IN /\ values' = r.values
       /\ last' = Call("GetArgumentValues",
                       [tid |-> tid, values |-> vals], r.ret)
       /\ UNCHANGED <<register_infos, process, heap, returned>>

DoSetReturnValueObject ==
  \E frame_sp \in Frames, new_value_sp \in ValueObjects :
    /\ last' = Call("SetReturnValueObject",
                    [frame_sp |-> frame_sp, new_value_sp |-> new_value_sp],
                    SetReturnValueObject(frame_sp, new_value_sp))
    /\ UNCHANGED <<register_infos, process, values, heap, returned>>

DoGetReturnValueObjectImpl ==
  \E tid \in Tids, type \in CompilerTypes :
    /\ last' = Call("GetReturnValueObjectImpl",
                    [tid |-> tid, type |-> type],
                    GetReturnValueObjectImpl(process, tid, type))
    /\ UNCHANGED <<register_infos, process, values, heap, returned>>

DoCreateFunctionEntryUnwindPlan ==
  /\ Len(returned) < MaxPlans
  /\ LET r == CreateFunctionEntryUnwindPlan(heap)
     IN /\ heap' = r.heap
        /\ returned' = Append(returned,
             [op |-> "CreateFunctionEntryUnwindPlan", plan_sp |-> r.plan_sp])
        /\ last' = Call("CreateFunctionEntryUnwindPlan", <<>>, r.plan_sp)
  /\ UNCHANGED <<register_infos, process, values>>

DoCreateDefaultUnwindPlan ==
  /\ Len(returned) < MaxPlans
  /\ LET r == CreateDefaultUnwindPlan(heap)
     IN /\ heap' = r.heap
        /\ returned' = Append(returned,
             [op |-> "CreateDefaultUnwindPlan", plan_sp |-> r.plan_sp])
        /\ last' = Call("CreateDefaultUnwindPlan", <<>>, r.plan_sp)
  /\ UNCHANGED <<register_infos, process, values>>

DoRegisterIsVolatile ==
  \E reg_info \in RegInfoPtrs :
    /\ last' = Call("RegisterIsVolatile", reg_info,
                    RegisterIsVolatile(reg_info))
    /\ UNCHANGED <<register_infos, process, values, heap, returned>>

DoCallFrameAddressIsValid ==
  \E cfa \in Addrs :
    /\ last' = Call("CallFrameAddressIsValid", cfa,
                    CallFrameAddressIsValid(cfa))
    /\ UNCHANGED <<register_infos, process, values, heap, returned>>

DoCodeAddressIsValid ==
  \E pc \in Addrs :
    /\ last' = Call("CodeAddressIsValid", pc, CodeAddressIsValid(pc))
    /\ UNCHANGED <<register_infos, process, values, heap, returned>>

Next ==
  \/ DoGetRegisterInfoArray
  \/ DoGetRedZoneSize
  \/ DoGetStackFrameSize
  \/ DoCreateInstance
  \/ DoPrepareTrivialCall
  \/ DoGetArgumentValues
  \/ DoSetReturnValueObject
  \/ DoGetReturnValueObjectImpl
  \/ DoCreateFunctionEntryUnwindPlan
  \/ DoCreateDefaultUnwindPlan
  \/ DoRegisterIsVolatile
  \/ DoCallFrameAddressIsValid
  \/ DoCodeAddressIsValid

Spec == Init /\ [][Next]_vars

(* ----------------------------- properties ------------------------------ *)

\* indices of the table entries whose generic role is role
EntriesWithRole(infos, role) ==
  { i \in 1..Len(infos) : infos[i].kinds[eRegisterKindGeneric] = role }

\* the id, in numbering scheme kind, of the one entry carrying role
IdOfRole(infos, kind, role) ==
  infos[CHOOSE i \in EntriesWithRole(infos, role) : TRUE].kinds[kind]

\* the plans the two unwind-plan operations have handed out so far
PlansOf(op) ==
  { heap[returned[i].plan_sp] :
      i \in { j \in 1..Len(returned) : returned[j].op = op } }

AllPlans ==
  PlansOf("CreateFunctionEntryUnwindPlan")
    \cup PlansOf("CreateDefaultUnwindPlan")

\* one row: CFA = SP + 2, PC in the 2 bytes at CFA - 2, SP = CFA + 0
HasReturnAddressRow(plan) ==
  LET sp == IdOfRole(register_infos, plan.register_kind,
                     LLDB_REGNUM_GENERIC_SP)
      pc == IdOfRole(register_infos, plan.register_kind,
                     LLDB_REGNUM_GENERIC_PC)
      pc_size ==
        register_infos[CHOOSE i \in EntriesWithRole(register_infos,
                         LLDB_REGNUM_GENERIC_PC) : TRUE].byte_size
  IN /\ Len(plan.row_list) = 1
     /\ plan.row_list[1].cfa_value =
          [type |-> "isRegisterPlusOffset", reg_num |-> sp, offset |-> 2]
     /\ DOMAIN plan.row_list[1].register_locations = {sp, pc}
     /\ plan.row_list[1].register_locations[pc] =
          [type |-> "atCFAPlusOffset", offset |-> -2]
     /\ pc_size = 2
     /\ plan.row_list[1].register_locations[sp] =
          [type |-> "isCFAPlusOffset", offset |-> 0]

\* C1: every plan returned by CreateFunctionEntryUnwindPlan or
\* CreateDefaultUnwindPlan has exactly one row with CFA = stack pointer + 2,
\* the program counter read from the 2 bytes at CFA - 2 and the stack pointer
\* equal to CFA + 0, and entry and default plans carry the same rows.
C1_BothPlansUseReturnAddressRow ==
  /\ \A plan \in AllPlans : HasReturnAddressRow(plan)
  /\ \A p1 \in PlansOf("CreateFunctionEntryUnwindPlan"),
        p2 \in PlansOf("CreateDefaultUnwindPlan") :
       p1.row_list = p2.row_list

C1_Witness ==
  /\ PlansOf("CreateFunctionEntryUnwindPlan") # {}
  /\ PlansOf("CreateDefaultUnwindPlan") # {}

\* C2: the table GetRegisterInfoArray returns has 6 entries in the order
\* a, x, y, p (flags), sp, pc, the first id of each entry equals its index,
\* and the generic roles ProgramCounter, StackPointer and Flags are carried
\* by exactly one entry each while the other three entries carry none.
C2_RegisterTableShape ==
  last.op = "GetRegisterInfoArray" =>
    LET infos == last.out.infos
    IN /\ last.out.count = 6
       /\ Len(infos) = 6
       /\ [i \in 1..6 |-> infos[i].name] = <<"a", "x", "y", "p", "sp", "pc">>
       /\ infos[4].alt_name = "flags"
       /\ \A i \in 1..6 : infos[i].kinds[eRegisterKindEHFrame] = i - 1
       /\ Cardinality(EntriesWithRole(infos, LLDB_REGNUM_GENERIC_PC)) = 1
       /\ Cardinality(EntriesWithRole(infos, LLDB_REGNUM_GENERIC_SP)) = 1
       /\ Cardinality(EntriesWithRole(infos, LLDB_REGNUM_GENERIC_FLAGS)) = 1
       /\ Cardinality(EntriesWithRole(infos, LLDB_INVALID_REGNUM)) = 3

C2_Witness ==
  /\ last.op = "GetRegisterInfoArray"
  /\ Len(returned) > 0

\* C3: CodeAddressIsValid(a) is true exactly when a <= 0xFFFF; 0x0000 and
\* 0xFFFF are valid, 0x10000 is not.
C3_CodeAddressValidIffSixteenBit ==
  last.op = "CodeAddressIsValid" =>
    /\ last.out = (last.in <= 65535)
    /\ (last.in \in {0, 65535} => last.out = TRUE)
    /\ (last.in = 65536 => last.out = FALSE)

C3_Witness ==
  /\ last.op = "CodeAddressIsValid"
  /\ last.in = 65536
  /\ last.out = FALSE

\* C4: CallFrameAddressIsValid(a) is true exactly when a # 0; the stack page
\* $0100-$01FF is not enforced, so 1 and 0x200 are accepted.
C4_FrameAddressValidIffNonZero ==
  last.op = "CallFrameAddressIsValid" =>
    /\ last.out = (last.in # 0)
    /\ (last.in \in {1, 512} => last.out = TRUE)

C4_Witness ==
  /\ last.op = "CallFrameAddressIsValid"
  /\ last.in = 512
  /\ last.out = TRUE

\* C5: for every descriptor passed in, RegisterIsVolatile is true,
\* RegisterIsCalleeSaved is false, and the first is the negation of the
\* second.
C5_EveryRegisterVolatile ==
  last.op = "RegisterIsVolatile" =>
    /\ last.out = TRUE
    /\ RegisterIsCalleeSaved(last.in) = FALSE
    /\ last.out = ~RegisterIsCalleeSaved(last.in)

C5_Witness ==
  /\ last.op = "RegisterIsVolatile"
  /\ last.in # nullptr_reg_info
  /\ last.in[1].kinds[eRegisterKindGeneric] = LLDB_REGNUM_GENERIC_SP
  /\ last.out = TRUE

\* C6: PrepareTrivialCall returns false for every thread, stack pointer,
\* function address, return address and argument list, and the registers
\* and memory of the process are afterwards what they were before the call.
C6_PrepareTrivialCallFailsWithoutEffect ==
  last.op = "PrepareTrivialCall" =>
    /\ last.out = FALSE
    /\ process = last.in.process

C6_Witness ==
  /\ last.op = "PrepareTrivialCall"
  /\ last.in.args # <<>>
  /\ last.in.sp = 509
  /\ process.regs[last.in.tid].sp # last.in.sp % 256

\* C7 as stated: GetArgumentValues returns false and the value list is empty
\* afterwards, for any value list passed in.
C7_ValueListEmptyAfterwards ==
  last.op = "GetArgumentValues" =>
    /\ last.out = FALSE
    /\ values = <<>>

\* C7 amended: GetArgumentValues returns false and the value list is
\* afterwards exactly the list that was passed in.
C7_ValueListUnmodified ==
  last.op = "GetArgumentValues" =>
    /\ last.out = FALSE
    /\ values = last.in.values

C7_Witness ==
  /\ last.op = "GetArgumentValues"
  /\ last.in.values # <<>>
  /\ last.out = FALSE

\* C8: CreateInstance returns a valid instance exactly when the requested
\* architecture is mos, and an empty pointer for every other architecture.
C8_InstanceIffMos ==
  last.op = "CreateInstance" =>
    (last.out.valid <=> last.in.arch = "mos")

C8_Witness ==
  /\ last.op = "CreateInstance"
  /\ last.in.arch = "mos"
  /\ last.out.valid

\* C10: whatever queries have been made, the register table still has its
\* initial contents, every unwind-plan call returned an object no earlier
\* call returned, and calls of the same operation returned equal plans.
C10_TableFixedPlansFreshAndEqual ==
  /\ register_infos = g_register_infos
  /\ \A i, j \in 1..Len(returned) :
       i < j =>
         /\ returned[i].plan_sp # returned[j].plan_sp
         /\ returned[i].op = returned[j].op =>
              heap[returned[i].plan_sp] = heap[returned[j].plan_sp]

C10_Witness ==
  /\ Len(returned) >= 2
  /\ returned[1].op = returned[2].op
  /\ last.op = "GetArgumentValues"
  /\ last.in.values # <<>>
====
